---- MODULE Spec2Model ----
(***************************************************************************)
(* Histogram registry (Histogrammer), its fill workers and the histogram   *)
(* containers of alconley/gNAT.                                            *)
(*                                                                         *)
(* Floating-point values are fixed-point integers in tenths: 5 is 0.5,     *)
(* 100 is 10.0, the range <<0, 100>> is [0, 10).                           *)
(***************************************************************************)
EXTENDS Integers, Sequences, FiniteSets, TLC

VARIABLES
    hists,       \* heap of Arc<Mutex<Box<Histogram | Histogram2D>>>: the data
    holder,      \* per heap object: the task holding its MutexGuard, 0 = free
    poisoned,    \* per heap object: the Mutex poison flag
    tiles,       \* Histogrammer.tree.tiles: the panes, as heap ids
    handles,     \* Histogrammer.handles: Vec<JoinHandle<()>>, as task ids
    tasks,       \* every thread ever spawned by fill_hist1d / fill_hist2d
    owner,       \* the thread that owns the Histogrammer: "running" | "panicked"
    h1,          \* a free-standing Histogram (unit level)
    h2,          \* a free-standing Histogram2D (unit level)
    nfills,      \* number of unit-level calls made so far
    fed,         \* how often each value was passed to h1.fill since its reset
    fitter,      \* a Fitter
    fits,        \* a Fits collection
    file,        \* the content of the file the dialogs of Fits pick
    containers,  \* Histogrammer.tree.tiles: the container tiles, with the tab
                 \* name the behavior maps a grid to
    root,        \* Histogrammer.tree.root
    grid_histogram_map   \* Histogrammer.grid_histogram_map, per container

vars == <<hists, holder, poisoned, tiles, handles, tasks, owner, h1, h2, nfills, fed,
          fitter, fits, file, containers, root, grid_histogram_map>>

(* ------------------------------ bounds -------------------------------- *)
MaxHists == 2
MaxTasks == 2
MaxCalls == 5
MaxFits == 2
MaxStored == 2
MaxGrids == 2
MaxHandles == 4

(* ------------------------------ inputs -------------------------------- *)
\* Names a caller asks for; only those of AddNames are ever registered, so
\* "b" is always a name the container does not have.
Names == {"a", "b"}
AddNames == {"a"}

\* The LazyFrame: its f64 columns. "n" is a column of another dtype and
\* "q" is no column at all.
lf == [x |-> <<0, 5, 99, 100>>, y |-> <<15, 5, 100, -10>>]
F64Columns == {"x", "y"}
OtherColumns == {"n"}
ColumnNames == {"x", "q"}

\* (bins, range) pairs offered to add_hist1d, per axis
Geoms1 == { << <<10>>, << <<0, 100>> >> >>, << <<2>>, << <<0, 50>> >> >> }
Geoms2 == { << <<2, 2>>, << <<0, 100>>, <<0, 100>> >> >>,
            << <<1, 2>>, << <<0, 50>>, <<0, 100>> >> >> }

Values == {-10, 0, 5, 15, 50, 99, 100}

NoProgress == <<>>

\* Option<T>
None == <<>>
Some(v) == <<v>>

\* TileId: the pane of heap object h is tile h, container k of the tree is
\* tile -k; NoTile stands for tree.root = None, UnknownTile for an id the
\* tree does not hold
NoTile == 0
UnknownTile == 99

(* --------------------- Histogram / Histogram2D ------------------------ *)
RECURSIVE Product(_)
Product(s) == IF s = <<>> THEN 1 ELSE Head(s) * Product(Tail(s))

RECURSIVE SumSeq(_)
SumSeq(s) == IF s = <<>> THEN 0 ELSE Head(s) + SumSeq(Tail(s))

\* floor((v - min) / (max - min) * bin_count), zero-based
BinIndex(v, rng, n) == ((v - rng[1]) * n) \div (rng[2] - rng[1])

InRange(v, rng) == v >= rng[1] /\ v < rng[2]

Histogram_new(name, bins, range) ==
    [kind |-> "Histogram", name |-> name, bins |-> bins, range |-> range,
     counts |-> [k \in 1..Product(bins) |-> 0], progress |-> NoProgress]

Histogram2D_new(name, bins, range) ==
    [kind |-> "Histogram2D", name |-> name, bins |-> bins, range |-> range,
     counts |-> [k \in 1..Product(bins) |-> 0], progress |-> NoProgress]

\* a fill that counts a value outside the range in the nearest edge bin
Histogram_fill_clamped(h, value, current_step, total_steps) ==
    LET n == h.bins[1]
        b == BinIndex(value, h.range[1], n)
        k == IF b < 0 THEN 1 ELSE IF b >= n THEN n ELSE b + 1
    IN  [h EXCEPT !.counts = [h.counts EXCEPT ![k] = @ + 1],
                  !.progress = <<current_step, total_steps>>]

\* a fill whose bin index is rounded up instead of down
Histogram_fill_ceil(h, value, current_step, total_steps) ==
    LET n == h.bins[1]
        w == h.range[1][2] - h.range[1][1]
        b == ((value - h.range[1][1]) * n + w - 1) \div w
        k == IF b >= n THEN n ELSE b + 1
        c == IF InRange(value, h.range[1])
             THEN [h.counts EXCEPT ![k] = @ + 1]
             ELSE h.counts
    IN  [h EXCEPT !.counts = c, !.progress = <<current_step, total_steps>>]

\* Histogram::fill(value, current_step, total_steps)
Histogram_fill(h, value, current_step, total_steps) ==
    LET k == BinIndex(value, h.range[1], h.bins[1]) + 1
        c == IF InRange(value, h.range[1])
             THEN [h.counts EXCEPT ![k] = @ + 1]
             ELSE h.counts
    IN  [h EXCEPT !.counts = c, !.progress = <<current_step, total_steps>>]

\* Histogram2D::fill(x, y, current_step, total_steps); counts are row-major
Histogram2D_fill(h, x, y, current_step, total_steps) ==
    LET ix == BinIndex(x, h.range[1], h.bins[1])
        iy == BinIndex(y, h.range[2], h.bins[2])
        k  == iy * h.bins[1] + ix + 1
        c  == IF InRange(x, h.range[1]) /\ InRange(y, h.range[2])
              THEN [h.counts EXCEPT ![k] = @ + 1]
              ELSE h.counts
    IN  [h EXCEPT !.counts = c, !.progress = <<current_step, total_steps>>]

\* Histogram::reset / Histogram2D::reset
Histogram_reset(h) ==
    [h EXCEPT !.counts = [k \in 1..Len(h.counts) |-> 0], !.progress = NoProgress]

\* fill through a MutexGuard of either pane kind; row is <<v>> or <<x, y>>
Fill(h, row, i, total) ==
    IF h.kind = "Histogram"
    THEN Histogram_fill(h, row[1], i, total)
    ELSE Histogram2D_fill(h, row[1], row[2], i, total)

(* ------------------------------ helpers -------------------------------- *)
Range(s) == {s[k] : k \in 1..Len(s)}

\* Vec::swap_remove(i): the last element takes the place of element i
SwapRemove(v, i) ==
    IF i = Len(v) THEN SubSeq(v, 1, Len(v) - 1)
    ELSE SubSeq([v EXCEPT ![i] = v[Len(v)]], 1, Len(v) - 1)

\* the registry and everything its handlers touch, as one value; ret is what
\* the handler returns and err whether it logs an error (neither is kept)
Registry ==
    [hists |-> hists, holder |-> holder, poisoned |-> poisoned, tiles |-> tiles,
     handles |-> handles, tasks |-> tasks, owner |-> owner,
     containers |-> containers, root |-> root,
     grid_histogram_map |-> grid_histogram_map,
     ret |-> TRUE, err |-> FALSE]

Becomes(R) ==
    /\ hists' = R.hists
    /\ holder' = R.holder
    /\ poisoned' = R.poisoned
    /\ tiles' = R.tiles
    /\ handles' = R.handles
    /\ tasks' = R.tasks
    /\ owner' = R.owner
    /\ containers' = R.containers
    /\ root' = R.root
    /\ grid_histogram_map' = R.grid_histogram_map

Returned(R, ret, err) == [R EXCEPT !.ret = ret, !.err = err]

\* the heap ids of the panes of one kind held by the tree
Panes(R, kind) == {R.tiles[k] : k \in {j \in 1..Len(R.tiles) : R.hists[R.tiles[j]].kind = kind}}

\* a lookup that takes any pane of the kind, whatever its name
Find_any_name(R, kind, name) == Panes(R, kind)

\* the panes of one kind whose name matches
Find(R, kind, name) == {h \in Panes(R, kind) : R.hists[h].name = name}

\* hist.lock().unwrap() on a poisoned Mutex panics in the calling thread
Panicked(R) == [R EXCEPT !.owner = "panicked", !.ret = FALSE, !.err = TRUE]

(* ------------------------- Histogrammer: add --------------------------- *)
\* the in-place reset of add_hist1d / add_hist2d; tasks remember how many
\* of their rows were counted before it (mark)
ResetInPlace(R, h) ==
    [R EXCEPT !.hists[h] = Histogram_reset(@),
              !.tasks = [t \in 1..Len(R.tasks) |->
                           IF R.tasks[t].hist = h
                           THEN [R.tasks[t] EXCEPT !.mark = R.tasks[t].i]
                           ELSE R.tasks[t]]]

\* the new pane of add_hist1d / add_hist2d
InsertPane(R, hist) ==
    [R EXCEPT !.hists = Append(@, hist),
              !.holder = Append(@, 0),
              !.poisoned = Append(@, FALSE),
              !.tiles = Append(@, Len(R.hists) + 1)]

\* a container tile; tab_name is what the behavior's tile map holds for it
Container(kind, children, tab_name) ==
    [kind |-> kind, children |-> children, tab_name |-> tab_name]

InsertContainer(R, c) ==
    [R EXCEPT !.containers = Append(@, c), !.grid_histogram_map = Append(@, <<>>)]

\* create_grid: a Grid inside a new Tabs, hung under the root; .ret is grid_id
create_grid(R, tab_name) ==
    LET grid_id == -(Len(R.containers) + 1)
        tab_id  == grid_id - 1
        R1 == InsertContainer(R, Container("Grid", <<>>, Some(tab_name)))
        R2 == InsertContainer(R1, Container("Tabs", <<grid_id>>, None))
        R3 == IF R2.root = NoTile
              THEN [R2 EXCEPT !.root = tab_id]
              ELSE IF R2.root < 0 /\ R2.containers[-R2.root].kind = "Tabs"
                   THEN [R2 EXCEPT !.containers[-R2.root].children = Append(@, tab_id)]
                   ELSE [InsertContainer(R2, Container("Tabs", <<R2.root, tab_id>>, None))
                            EXCEPT !.root = tab_id - 1]
    IN  [R3 EXCEPT !.ret = grid_id]

\* the Grid containers the behavior maps to the tab name "Other"
OtherGrids(R) ==
    {-k : k \in {j \in 1..Len(R.containers) :
                    /\ R.containers[j].kind = "Grid"
                    /\ R.containers[j].tab_name = Some("Other")}}

\* a fallback that never looks for an existing "Other" grid
get_or_create_other_grid_always_creates(R) == create_grid(R, "Other")

\* get_or_create_other_grid; .ret is the grid id
get_or_create_other_grid(R) ==
    IF OtherGrids(R) # {}
    THEN [R EXCEPT !.ret = CHOOSE g \in OtherGrids(R) : TRUE]
    ELSE create_grid(R, "Other")

IsGrid(R, id) == id < 0 /\ -id <= Len(R.containers) /\ R.containers[-id].kind = "Grid"

\* the placement of a new pane by add_hist1d / add_hist2d: under the given
\* grid, under "Other" when none is given, nowhere when grid_id is no Grid
Place(R, pane_id, grid) ==
    LET R1 == IF grid # None THEN R ELSE get_or_create_other_grid(R)
        grid_id == IF grid # None THEN grid[1] ELSE R1.ret
    IN  IF IsGrid(R1, grid_id)
        THEN [R1 EXCEPT !.containers[-grid_id].children = Append(@, pane_id),
                        !.grid_histogram_map[-grid_id] = Append(@, pane_id),
                        !.ret = TRUE]
        ELSE [R1 EXCEPT !.ret = TRUE]

\* an add that never looks for an existing histogram of the name
add_hist_always_inserts(R, kind, name, bins, range, early, grid) ==
    Place(InsertPane(R, IF kind = "Histogram" THEN Histogram_new(name, bins, range)
                        ELSE Histogram2D_new(name, bins, range)),
          Len(R.hists) + 1, grid)

\* add_hist1d / add_hist2d; `early` says whether the iteration over the tiles
\* meets the other panes of the kind before the one that matches
add_hist(R, kind, name, bins, range, early, grid) ==
    LET found == Find(R, kind, name)
        h     == CHOOSE x \in found : TRUE
        fresh == IF kind = "Histogram" THEN Histogram_new(name, bins, range)
                 ELSE Histogram2D_new(name, bins, range)
    IN  IF found # {}
        THEN IF R.poisoned[h] \/ (early /\ \E o \in Panes(R, kind) : R.poisoned[o])
             THEN Panicked(R)
             ELSE ResetInPlace(R, h)
        ELSE IF \E o \in Panes(R, kind) : R.poisoned[o]
             THEN Panicked(R)
             ELSE Place(InsertPane(R, fresh), Len(R.hists) + 1, grid)

\* whether the handler can get through its lock() calls on pane `name` now
LockFree(R, kind, name) == \A h \in Find(R, kind, name) : R.holder[h] = 0

Orders(R, kind) == IF \E o \in Panes(R, kind) : R.poisoned[o] THEN BOOLEAN ELSE {FALSE}

add_hist1d(name, bins, range, grid) ==
    /\ owner = "running"
    /\ LockFree(Registry, "Histogram", name)
    /\ Find(Registry, "Histogram", name) = {} => Len(hists) < MaxHists
    /\ \E early \in Orders(Registry, "Histogram") :
          Becomes(add_hist(Registry, "Histogram", name, bins, range, early, grid))
    /\ UNCHANGED <<h1, h2, nfills, fed, fitter, fits, file>>

add_hist2d(name, bins, range, grid) ==
    /\ owner = "running"
    /\ LockFree(Registry, "Histogram2D", name)
    /\ Find(Registry, "Histogram2D", name) = {} => Len(hists) < MaxHists
    /\ \E early \in Orders(Registry, "Histogram2D") :
          Becomes(add_hist(Registry, "Histogram2D", name, bins, range, early, grid))
    /\ UNCHANGED <<h1, h2, nfills, fed, fitter, fits, file>>

(* ------------------------- Histogrammer: fill -------------------------- *)
\* the thread spawned by fill_hist1d / fill_hist2d, before it has run.
\* filt is hist_range as captured for filter_expr; mark and joined are
\* bookkeeping about the thread, not data of the program.
NoHist == [kind |-> "", name |-> "", bins |-> <<>>, range |-> <<>>,
           counts |-> <<>>, progress |-> NoProgress]

Spawned(h, cols, range) ==
    [hist |-> h, cols |-> cols, filt |-> range, pc |-> "start", rows |-> <<>>,
     i |-> 0, mark |-> 0, outcome |-> "running", failed |-> FALSE,
     seen |-> NoHist, joined |-> 0]

\* a spawn whose JoinHandle is not kept
Dispatch_handle_not_kept(R, task) == [R EXCEPT !.tasks = Append(@, task)]

\* std::thread::spawn(..) and self.handles.push(handle)
Dispatch(R, task) ==
    [R EXCEPT !.tasks = Append(@, task),
              !.handles = Append(@, Len(R.tasks) + 1)]

\* fill_hist1d / fill_hist2d
fill_hist(R, kind, name, cols, early) ==
    LET found == Find(R, kind, name)
        h     == CHOOSE x \in found : TRUE
    IN  IF found # {}
        THEN IF R.poisoned[h] \/ (early /\ \E o \in Panes(R, kind) : R.poisoned[o])
             THEN Panicked(R)
             ELSE Returned(Dispatch(R, Spawned(h, cols, R.hists[h].range)), TRUE, FALSE)
        ELSE IF \E o \in Panes(R, kind) : R.poisoned[o]
             THEN Panicked(R)
             ELSE Returned(R, FALSE, TRUE)

fill_hist1d(name, column_name) ==
    /\ owner = "running"
    /\ LockFree(Registry, "Histogram", name)
    /\ Find(Registry, "Histogram", name) # {} => Len(tasks) < MaxTasks
    /\ \E early \in Orders(Registry, "Histogram") :
          Becomes(fill_hist(Registry, "Histogram", name, <<column_name>>, early))
    /\ UNCHANGED <<h1, h2, nfills, fed, fitter, fits, file>>

fill_hist2d(name, x_column_name, y_column_name) ==
    /\ owner = "running"
    /\ LockFree(Registry, "Histogram2D", name)
    /\ Find(Registry, "Histogram2D", name) # {} => Len(tasks) < MaxTasks
    /\ \E early \in Orders(Registry, "Histogram2D") :
          Becomes(fill_hist(Registry, "Histogram2D", name,
                            <<x_column_name, y_column_name>>, early))
    /\ UNCHANGED <<h1, h2, nfills, fed, fitter, fits, file>>

\* add_fill_hist1d / add_fill_hist2d: add_hist, then fill_hist on what it left
add_fill_hist(R, kind, name, cols, bins, range, early, grid) ==
    LET R1 == add_hist(R, kind, name, bins, range, early, grid)
    IN  IF R1.owner = "panicked" THEN R1
        ELSE fill_hist(R1, kind, name, cols, early)

add_fill_hist1d(name, column_name, bins, range, grid) ==
    /\ owner = "running"
    /\ LockFree(Registry, "Histogram", name)
    /\ Find(Registry, "Histogram", name) = {} => Len(hists) < MaxHists
    /\ Len(tasks) < MaxTasks
    /\ \E early \in Orders(Registry, "Histogram") :
          Becomes(add_fill_hist(Registry, "Histogram", name, <<column_name>>,
                                bins, range, early, grid))
    /\ UNCHANGED <<h1, h2, nfills, fed, fitter, fits, file>>

add_fill_hist2d(name, x_column_name, y_column_name, bins, range, grid) ==
    /\ owner = "running"
    /\ LockFree(Registry, "Histogram2D", name)
    /\ Find(Registry, "Histogram2D", name) = {} => Len(hists) < MaxHists
    /\ Len(tasks) < MaxTasks
    /\ \E early \in Orders(Registry, "Histogram2D") :
          Becomes(add_fill_hist(Registry, "Histogram2D", name,
                                <<x_column_name, y_column_name>>, bins, range, early,
                                grid))
    /\ UNCHANGED <<h1, h2, nfills, fed, fitter, fits, file>>

(* --------------------------- the fill thread --------------------------- *)
\* filter_expr: col > min AND col < max, on every axis
filter_expr(row, range) ==
    \A a \in 1..Len(range) : row[a] > range[a][1] /\ row[a] < range[a][2]

\* lf.select(cols).filter(filter_expr).collect(), row by row in source order
RECURSIVE CollectFrom(_, _, _)
CollectFrom(k, cols, range) ==
    IF k > Len(lf[cols[1]]) THEN <<>>
    ELSE LET row == [a \in 1..Len(cols) |-> lf[cols[a]][k]]
         IN  (IF filter_expr(row, range) THEN <<row>> ELSE <<>>)
                \o CollectFrom(k + 1, cols, range)

Collect(cols, range) == CollectFrom(1, cols, range)

Ended(task, outcome) == [task EXCEPT !.pc = "done", !.outcome = outcome]

\* a thread that clears the progress on the error path as well
worker_collect_clears_progress(t) ==
    LET task == tasks[t] IN
    /\ task.pc = "start"
    /\ IF \E a \in 1..Len(task.cols) : task.cols[a] \notin (F64Columns \cup OtherColumns)
       THEN /\ tasks' = [tasks EXCEPT ![t] = [Ended(task, "ok") EXCEPT !.failed = TRUE]]
            /\ hists' = [hists EXCEPT ![task.hist].progress = NoProgress]
       ELSE /\ tasks' = [tasks EXCEPT ![t] =
                 IF \E a \in 1..Len(task.cols) : task.cols[a] \in OtherColumns
                 THEN Ended(task, "panic")
                 ELSE [task EXCEPT !.pc = "loop", !.rows = Collect(task.cols, task.filt)]]
            /\ UNCHANGED hists
    /\ UNCHANGED <<holder, poisoned, tiles, handles, owner, h1, h2, nfills, fed, fitter, fits, file, containers, root,
                   grid_histogram_map>>

\* a thread that builds its filter from the range the histogram has when
\* the thread collects
worker_collect_rereads_range(t) ==
    LET task == tasks[t] IN
    /\ task.pc = "start"
    /\ tasks' = [tasks EXCEPT ![t] =
         IF \E a \in 1..Len(task.cols) : task.cols[a] \notin (F64Columns \cup OtherColumns)
         THEN [Ended(task, "ok") EXCEPT !.failed = TRUE]
         ELSE IF \E a \in 1..Len(task.cols) : task.cols[a] \in OtherColumns
         THEN Ended(task, "panic")
         ELSE [task EXCEPT !.pc = "loop",
                           !.rows = Collect(task.cols, hists[task.hist].range)]]
    /\ UNCHANGED <<hists, holder, poisoned, tiles, handles, owner, h1, h2, nfills, fed,
                   fitter, fits, file, containers, root, grid_histogram_map>>

\* collect(): Err for a column the frame does not have; then .f64().unwrap()
\* panics for a column that is not f64
worker_collect(t) ==
    LET task == tasks[t] IN
    /\ task.pc = "start"
    /\ tasks' = [tasks EXCEPT ![t] =
         IF \E a \in 1..Len(task.cols) : task.cols[a] \notin (F64Columns \cup OtherColumns)
         THEN [Ended(task, "ok") EXCEPT !.failed = TRUE]
         ELSE IF \E a \in 1..Len(task.cols) : task.cols[a] \in OtherColumns
         THEN Ended(task, "panic")
         ELSE [task EXCEPT !.pc = "loop", !.rows = Collect(task.cols, task.filt)]]
    /\ UNCHANGED <<hists, holder, poisoned, tiles, handles, owner, h1, h2, nfills, fed, fitter, fits, file, containers, root,
                   grid_histogram_map>>

\* a lock that is granted whoever holds a guard
CanLock_unguarded(h) == TRUE

\* Mutex::lock: granted when no guard is out
CanLock(h) == holder[h] = 0

\* a thread that takes the lock and asks for it again before it counts
worker_lock_keeps_waiting(t) ==
    LET h == tasks[t].hist IN
    /\ tasks[t].pc = "loop"
    /\ tasks[t].i < Len(tasks[t].rows)
    /\ CanLock(h)
    /\ ~poisoned[h]
    /\ holder' = [holder EXCEPT ![h] = t]
    /\ UNCHANGED <<hists, poisoned, tiles, handles, tasks, owner, h1, h2, nfills, fed,
                   fitter, fits, file, containers, root, grid_histogram_map>>

\* let mut hist = hist.lock().unwrap(), for the next value
worker_lock(t) ==
    LET h == tasks[t].hist IN
    /\ tasks[t].pc = "loop"
    /\ tasks[t].i < Len(tasks[t].rows)
    /\ CanLock(h)
    /\ IF poisoned[h]
       THEN /\ tasks' = [tasks EXCEPT ![t] = Ended(@, "panic")]
            /\ UNCHANGED holder
       ELSE /\ tasks' = [tasks EXCEPT ![t].pc = "locked", ![t].seen = hists[h]]
            /\ holder' = [holder EXCEPT ![h] = t]
    /\ UNCHANGED <<hists, poisoned, tiles, handles, owner, h1, h2, nfills, fed, fitter, fits, file, containers, root,
                   grid_histogram_map>>

\* a thread that reports the steps still to go instead of the steps done
worker_fill_counts_down(t) ==
    LET h == tasks[t].hist
        n == Len(tasks[t].rows)
        i == tasks[t].i
    IN
    /\ tasks[t].pc = "locked"
    /\ hists' = [hists EXCEPT ![h] = Fill(tasks[t].seen, tasks[t].rows[i + 1], n - i, n)]
    /\ holder' = [holder EXCEPT ![h] = 0]
    /\ tasks' = [tasks EXCEPT ![t].pc = "loop", ![t].i = i + 1, ![t].seen = NoHist]
    /\ UNCHANGED <<poisoned, tiles, handles, owner, h1, h2, nfills, fed, fitter, fits, file, containers, root,
                   grid_histogram_map>>

\* a fill that also zeroes every other histogram of the registry
worker_fill_clears_others(t) ==
    LET h == tasks[t].hist
        n == Len(tasks[t].rows)
        i == tasks[t].i
    IN
    /\ tasks[t].pc = "locked"
    /\ hists' = [k \in 1..Len(hists) |->
                   IF k = h THEN Fill(tasks[t].seen, tasks[t].rows[i + 1], i, n)
                   ELSE Histogram_reset(hists[k])]
    /\ holder' = [holder EXCEPT ![h] = 0]
    /\ tasks' = [tasks EXCEPT ![t].pc = "loop", ![t].i = i + 1, ![t].seen = NoHist]
    /\ UNCHANGED <<poisoned, tiles, handles, owner, h1, h2, nfills, fed, fitter, fits, file, containers, root,
                   grid_histogram_map>>

\* a fill whose guard outlives the iteration of the loop
worker_fill_keeps_guard(t) ==
    LET h == tasks[t].hist
        n == Len(tasks[t].rows)
        i == tasks[t].i
    IN
    /\ tasks[t].pc = "locked"
    /\ hists' = [hists EXCEPT ![h] = Fill(tasks[t].seen, tasks[t].rows[i + 1], i, n)]
    /\ tasks' = [tasks EXCEPT ![t].pc = IF i + 1 < n THEN "locked" ELSE "loop",
                               ![t].i = i + 1,
                               ![t].seen = Fill(tasks[t].seen, tasks[t].rows[i + 1], i, n)]
    /\ UNCHANGED <<holder, poisoned, tiles, handles, owner, h1, h2, nfills, fed,
                   fitter, fits, file, containers, root, grid_histogram_map>>

\* hist.fill(v, i, total_steps) through the guard, which is then dropped
worker_fill(t) ==
    LET h == tasks[t].hist
        n == Len(tasks[t].rows)
        i == tasks[t].i
    IN
    /\ tasks[t].pc = "locked"
    /\ hists' = [hists EXCEPT ![h] = Fill(tasks[t].seen, tasks[t].rows[i + 1], i, n)]
    /\ holder' = [holder EXCEPT ![h] = 0]
    /\ tasks' = [tasks EXCEPT ![t].pc = "loop", ![t].i = i + 1, ![t].seen = NoHist]
    /\ UNCHANGED <<poisoned, tiles, handles, owner, h1, h2, nfills, fed, fitter, fits, file, containers, root,
                   grid_histogram_map>>

\* hist.lock().unwrap().plot_settings.progress = None, after the loop
worker_finish(t) ==
    LET h == tasks[t].hist IN
    /\ tasks[t].pc = "loop"
    /\ tasks[t].i = Len(tasks[t].rows)
    /\ CanLock(h)
    /\ IF poisoned[h]
       THEN /\ tasks' = [tasks EXCEPT ![t] = Ended(@, "panic")]
            /\ UNCHANGED hists
       ELSE /\ tasks' = [tasks EXCEPT ![t] = Ended(@, "ok")]
            /\ hists' = [hists EXCEPT ![h].progress = NoProgress]
    /\ UNCHANGED <<holder, poisoned, tiles, handles, owner, h1, h2, nfills, fed, fitter, fits, file, containers, root,
                   grid_histogram_map>>

\* a panic inside hist.fill while the guard is held: the unwinding drops
\* the guard and poisons the Mutex
worker_fill_panics(t) ==
    LET h == tasks[t].hist IN
    /\ tasks[t].pc = "locked"
    /\ poisoned' = [poisoned EXCEPT ![h] = TRUE]
    /\ holder' = [holder EXCEPT ![h] = 0]
    /\ tasks' = [tasks EXCEPT ![t] = [Ended(@, "panic") EXCEPT !.seen = NoHist]]
    /\ UNCHANGED <<hists, tiles, handles, owner, h1, h2, nfills, fed, fitter, fits, file, containers, root,
                   grid_histogram_map>>

(* ------------------- Histogrammer: joining the threads ------------------ *)
\* handle.join() of the handle at index k, removed by swap_remove(k)
JoinAt(R, k) ==
    LET t == R.handles[k] IN
    [R EXCEPT !.handles = SwapRemove(@, k),
              !.tasks[t].joined = @ + 1,
              !.err = @ \/ R.tasks[t].outcome = "panic"]

\* a removal that takes the finished indices in ascending order
RECURSIVE JoinFrom_ascending(_, _, _)
JoinFrom_ascending(R, k, finished_indices) ==
    IF k = 0 THEN R
    ELSE LET R1 == JoinFrom_ascending(R, k - 1, finished_indices)
         IN  IF k \notin finished_indices THEN R1
             ELSE IF k > Len(R1.handles) THEN Panicked(R1)
             ELSE JoinAt(R1, k)

\* for &i in finished_indices.iter().rev()
RECURSIVE JoinFrom(_, _, _)
JoinFrom(R, k, finished_indices) ==
    IF k = 0 THEN R
    ELSE IF k \in finished_indices
         THEN JoinFrom(JoinAt(R, k), k - 1, finished_indices)
         ELSE JoinFrom(R, k - 1, finished_indices)

\* a poll that finds no thread finished
is_finished_never(R, t) == FALSE

\* JoinHandle::is_finished
is_finished(R, t) == R.tasks[t].pc = "done"

check_and_join(R) ==
    LET finished_indices == {k \in 1..Len(R.handles) : is_finished(R, R.handles[k])}
    IN  JoinFrom(R, Len(R.handles), finished_indices)

check_and_join_finished_threads ==
    /\ owner = "running"
    /\ handles # <<>>
    /\ Becomes(check_and_join(Registry))
    /\ UNCHANGED <<h1, h2, nfills, fed, fitter, fits, file>>

(* ------------------------------ Processer ------------------------------ *)
\* the Histogrammer that add_histograms(lf) builds
add_histograms(R) ==
    [R EXCEPT !.tiles = <<>>, !.handles = <<>>, !.containers = <<>>,
              !.root = NoTile, !.grid_histogram_map = <<>>]

\* self.histogrammer = h: the old Histogrammer is dropped and its
\* JoinHandles with it, which detaches their threads
Replaced(R) == Returned(add_histograms(R), TRUE, FALSE)

perform_histogrammer_from_lazyframe ==
    /\ owner = "running"
    /\ \E res \in {"Ok", "Err"} :
          IF res = "Ok"
          THEN Becomes(Replaced(Registry))
          ELSE Becomes(Returned(Registry, FALSE, TRUE))
    /\ UNCHANGED <<h1, h2, nfills, fed, fitter, fits, file>>

(* ------------------------------- Fitter -------------------------------- *)
\* Option<T>: None is the empty tuple, Some(v) the tuple of v

Min(a, b) == IF a < b THEN a ELSE b

\* closed-form ordinary least squares on the first n points, in integers;
\* None on fewer than 2 points or zero x-variance
LeastSquares(x, y) ==
    LET n   == Min(Len(x), Len(y))
        sx  == SumSeq(SubSeq(x, 1, n))
        sy  == SumSeq(SubSeq(y, 1, n))
        sxx == SumSeq([k \in 1..n |-> x[k] * x[k]])
        sxy == SumSeq([k \in 1..n |-> x[k] * y[k]])
        den == n * sxx - sx * sx
        slope == (n * sxy - sx * sy) \div den
    IN  IF n < 2 \/ den = 0 THEN None
        ELSE Some([slope |-> slope, intercept |-> (sy - slope * sx) \div n])

\* BackgroundFitter over its own sample points; fits_run counts the fits that
\* were run on it, which is bookkeeping and not data of the program
BackgroundFitter_new(x, y) ==
    [x_data |-> x, y_data |-> y, result |-> None, fits_run |-> 0]

\* BackgroundFitter::fit
BackgroundFitter_fit(bg) ==
    [bg EXCEPT !.result = LeastSquares(bg.x_data, bg.y_data), !.fits_run = @ + 1]

\* BackgroundFitter::get_background(x_values)
get_background(bg, x) ==
    IF bg.result = None THEN None
    ELSE Some([k \in 1..Len(x) |-> bg.result[1].slope * x[k] + bg.result[1].intercept])

\* GaussianFitter::new(x, y, peak_markers)
GaussianFitter_new(x, y, peak_markers) ==
    [kind |-> "Gaussian", x |-> x, y |-> y, peak_markers |-> peak_markers,
     fit_params |-> None, fit_lines |-> None]

\* GaussianFitter::multi_gauss_fit: one (amplitude, mean, sigma) and one
\* decomposed curve per peak marker. A curve is kept as the marker it grew
\* from and the data it was fitted to.
multi_gauss_fit(g) ==
    [g EXCEPT !.fit_params = Some([k \in 1..Len(g.peak_markers) |-> g.peak_markers[k]]),
              !.fit_lines = Some([k \in 1..Len(g.peak_markers) |->
                                    <<g.peak_markers[k], g.x, g.y>>])]

\* LinearFitter::new(x, y)
LinearFitter_new(x, y) ==
    [kind |-> "Linear", x |-> x, y |-> y, peak_markers |-> <<>>,
     fit_params |-> None, fit_lines |-> None]

\* LinearFitter::perform_linear_fit
perform_linear_fit(l) == [l EXCEPT !.fit_params = LeastSquares(l.x, l.y)]

\* EguiLine::new(name, color)
EguiLine_new(name, color) == [name |-> name, color |-> color, points |-> <<>>]

\* FitModel
Gaussian(peak_markers) == [kind |-> "Gaussian", peak_markers |-> peak_markers]
Linear == [kind |-> "Linear", peak_markers |-> <<>>]

\* Fitter::new(model, background)
Fitter_new(model, background) ==
    [x_data |-> <<>>, y_data |-> <<>>, y_err |-> None, background |-> background,
     model |-> model, result |-> None, deconvoluted_lines |-> <<>>,
     convoluted_line |-> EguiLine_new("Convoluted", "BLUE")]

\* Fitter::subtract_background
subtract_background(f) ==
    IF f.background # None
    THEN LET bg_result == get_background(f.background[1], f.x_data) IN
         IF bg_result # None
         THEN [k \in 1..Min(Len(f.y_data), Len(bg_result[1])) |->
                 f.y_data[k] - bg_result[1][k]]
         ELSE f.y_data
    ELSE f.y_data

\* markers that are only read from a result
get_peak_markers_of_result(f) ==
    IF f.result # None /\ f.result[1].kind = "Gaussian"
    THEN f.result[1].peak_markers
    ELSE <<>>

\* Fitter::get_peak_markers
get_peak_markers(f) ==
    IF f.result # None /\ f.result[1].kind = "Gaussian"
    THEN f.result[1].peak_markers
    ELSE IF f.model.kind = "Gaussian"
         THEN f.model.peak_markers
         ELSE <<>>

\* a first step that fits the background whether or not it has a result
fit_background_always(f) ==
    IF f.background # None
    THEN [f EXCEPT !.background = Some(BackgroundFitter_fit(f.background[1]))]
    ELSE f

\* the first step of Fitter::fit: fit the background if it is defined and
\* has no result
fit_background(f) ==
    IF f.background # None /\ f.background[1].result = None
    THEN [f EXCEPT !.background = Some(BackgroundFitter_fit(f.background[1]))]
    ELSE f

\* the lines Fitter::fit pushes: "Peak i" for the i-th of fit_lines
PeakLines(fit) ==
    IF fit.fit_lines = None THEN <<>>
    ELSE [k \in 1..Len(fit.fit_lines[1]) |->
            [EguiLine_new(<<"Peak", k - 1>>, "MAGENTA") EXCEPT
                !.points = fit.fit_lines[1][k]]]

\* Fitter::fit
Fitter_fit(f) ==
    LET f1 == fit_background(f)
        y_data_corrected == subtract_background(f1)
    IN  IF f1.model.kind = "Gaussian"
        THEN LET fit == multi_gauss_fit(
                           GaussianFitter_new(f1.x_data, y_data_corrected,
                                              f1.model.peak_markers))
             IN  [f1 EXCEPT !.deconvoluted_lines = @ \o PeakLines(fit),
                            !.result = Some(fit)]
        ELSE LET fit == perform_linear_fit(LinearFitter_new(f1.x_data, y_data_corrected))
             IN  [f1 EXCEPT !.result = Some(fit)]

(* -------------------------------- Fits --------------------------------- *)
\* Fits::new
Fits_new == [temp_fit |-> None, temp_background_fit |-> None, stored_fits |-> <<>>]

\* serde_json values: null, number, string, array, object
JNull == <<"null">>
JNum(n) == <<"num", n>>
JStr(str) == <<"str", str>>
JArr(items) == <<"arr", items>>
JObj(fields) == <<"obj", fields>>

\* the structs that are serialized as a whole by their own derive
\* (BackgroundFitter, GaussianFitter, LinearFitter, EguiLine)
ser_struct(v) == JObj(v)
de_struct(j) == j[2]

ser_vec_f64(v) == JArr([k \in 1..Len(v) |-> JNum(v[k])])
de_vec_f64(j) == [k \in 1..Len(j[2]) |-> j[2][k][2]]

\* FitModel: a unit variant is its name, a newtype variant a one-key object
ser_FitModel(m) ==
    IF m.kind = "Linear" THEN JStr("Linear")
    ELSE JObj([Gaussian |-> ser_vec_f64(m.peak_markers)])

de_FitModel(j) ==
    IF j[1] = "str" THEN Linear ELSE Gaussian(de_vec_f64(j[2].Gaussian))

\* Option<FitResult>
ser_result(r) ==
    IF r = None THEN JNull
    ELSE IF r[1].kind = "Gaussian" THEN JObj([Gaussian |-> ser_struct(r[1])])
    ELSE JObj([Linear |-> ser_struct(r[1])])

de_result(j) ==
    IF j[1] = "null" THEN None
    ELSE IF "Gaussian" \in DOMAIN j[2] THEN Some(de_struct(j[2].Gaussian))
    ELSE Some(de_struct(j[2].Linear))

\* Option<BackgroundFitter>
ser_background(b) == IF b = None THEN JNull ELSE ser_struct(b[1])
de_background(j) == IF j[1] = "null" THEN None ELSE Some(de_struct(j))

\* derive(Serialize, Deserialize) for Fitter
ser_Fitter(f) ==
    JObj([x_data |-> ser_vec_f64(f.x_data),
          y_data |-> ser_vec_f64(f.y_data),
          y_err |-> IF f.y_err = None THEN JNull ELSE ser_vec_f64(f.y_err[1]),
          background |-> ser_background(f.background),
          model |-> ser_FitModel(f.model),
          result |-> ser_result(f.result),
          deconvoluted_lines |->
              JArr([k \in 1..Len(f.deconvoluted_lines) |->
                      ser_struct(f.deconvoluted_lines[k])]),
          convoluted_line |-> ser_struct(f.convoluted_line)])

de_Fitter(j) ==
    [x_data |-> de_vec_f64(j[2].x_data),
     y_data |-> de_vec_f64(j[2].y_data),
     y_err |-> IF j[2].y_err[1] = "null" THEN None ELSE Some(de_vec_f64(j[2].y_err)),
     background |-> de_background(j[2].background),
     model |-> de_FitModel(j[2].model),
     result |-> de_result(j[2].result),
     deconvoluted_lines |->
         [k \in 1..Len(j[2].deconvoluted_lines[2]) |->
            de_struct(j[2].deconvoluted_lines[2][k])],
     convoluted_line |-> de_struct(j[2].convoluted_line)]

\* a serializer that leaves the in-progress background out
to_string_without_background(c) ==
    JObj([temp_fit |-> IF c.temp_fit = None THEN JNull ELSE ser_Fitter(c.temp_fit[1]),
          temp_background_fit |-> JNull,
          stored_fits |-> JArr([k \in 1..Len(c.stored_fits) |->
                                  ser_Fitter(c.stored_fits[k])])])

\* serde_json::to_string(self) for Fits
to_string(c) ==
    JObj([temp_fit |-> IF c.temp_fit = None THEN JNull ELSE ser_Fitter(c.temp_fit[1]),
          temp_background_fit |-> ser_background(c.temp_background_fit),
          stored_fits |-> JArr([k \in 1..Len(c.stored_fits) |->
                                  ser_Fitter(c.stored_fits[k])])])

\* serde_json::from_str::<Fits>(contents)
from_str(j) ==
    [temp_fit |-> IF j[2].temp_fit[1] = "null" THEN None
                  ELSE Some(de_Fitter(j[2].temp_fit)),
     temp_background_fit |-> de_background(j[2].temp_background_fit),
     stored_fits |-> [k \in 1..Len(j[2].stored_fits[2]) |->
                        de_Fitter(j[2].stored_fits[2][k])]]

\* Fits::save_to_file: what the file holds afterwards. dialog is what
\* FileDialog and File::create come to: "cancel", "err" or "ok"
save(c, f, dialog) == IF dialog = "ok" THEN Some(to_string(c)) ELSE f

\* a load that replaces the stored fits by the loaded ones
load_replaces_stored(c, f, dialog) ==
    IF dialog = "ok" /\ f # None THEN from_str(f[1]) ELSE c

\* Fits::load_from_file; File::open fails when there is no file
load(c, f, dialog) ==
    IF dialog = "ok" /\ f # None
    THEN LET loaded_fits == from_str(f[1]) IN
         [temp_fit |-> loaded_fits.temp_fit,
          temp_background_fit |-> loaded_fits.temp_background_fit,
          stored_fits |-> c.stored_fits \o loaded_fits.stored_fits]
    ELSE c

(* ----------------------------- specification --------------------------- *)
UnitHist1 == Histogram_new("u", <<10>>, << <<0, 100>> >>)
UnitHist2 == Histogram2D_new("u", <<2, 2>>, << <<0, 100>>, <<0, 100>> >>)

\* no Fitter in use and an empty Fits collection
InitFits ==
    /\ fitter = Fitter_new(Linear, None)
    /\ fits = Fits_new
    /\ file = None

InitRegistry ==
    /\ hists = <<>>
    /\ holder = <<>>
    /\ poisoned = <<>>
    /\ tiles = <<>>
    /\ handles = <<>>
    /\ tasks = <<>>
    /\ owner = "running"
    /\ containers = <<>>
    /\ root = NoTile
    /\ grid_histogram_map = <<>>

Init ==
    /\ InitRegistry
    /\ h1 = UnitHist1
    /\ h2 = UnitHist2
    /\ nfills = 0
    /\ fed = [v \in Values |-> 0]
    /\ InitFits

ColumnPairs == {<<"x", "y">>}

Next ==
    \/ \E name \in AddNames, g \in Geoms1 : add_hist1d(name, g[1], g[2], None)
    \/ \E name \in AddNames, g \in Geoms2 : add_hist2d(name, g[1], g[2], None)
    \/ \E name \in Names, c \in ColumnNames : fill_hist1d(name, c)
    \/ \E name \in Names, c \in ColumnPairs : fill_hist2d(name, c[1], c[2])
    \/ check_and_join_finished_threads
    \/ \E t \in 1..Len(tasks) : worker_collect(t)
    \/ \E t \in 1..Len(tasks) : worker_lock(t)
    \/ \E t \in 1..Len(tasks) : worker_fill(t)
    \/ \E t \in 1..Len(tasks) : worker_finish(t)

Spec == Init /\ [][Next]_vars

\* the Histogrammer as the Processer owns it
NextProcesser == Next \/ perform_histogrammer_from_lazyframe

SpecProcesser == Init /\ [][NextProcesser]_vars

\* the same program with workers that panic: a column that is not f64
\* (the unwrap of .f64() panics before any lock is taken), a missing column
\* of a 2D fill, and a fill that panics under the guard
NextFault ==
    \/ Next
    \/ \E name \in Names, c \in OtherColumns : fill_hist1d(name, c)
    \/ \E name \in Names : fill_hist2d(name, "x", "q")
    \/ \E t \in 1..Len(tasks) : worker_fill_panics(t)

SpecFault == Init /\ [][NextFault]_vars

\* a registry that is only ever used through add_fill_hist1d / add_fill_hist2d:
\* every fill is preceded by the creation or the reset of its histogram
NextAddFill ==
    \/ \E name \in AddNames, c \in ColumnNames, g \in Geoms1 :
          add_fill_hist1d(name, c, g[1], g[2], None)
    \/ \E name \in AddNames, c \in ColumnPairs, g \in Geoms2 :
          add_fill_hist2d(name, c[1], c[2], g[1], g[2], None)
    \/ check_and_join_finished_threads
    \/ \E t \in 1..Len(tasks) : worker_collect(t)
    \/ \E t \in 1..Len(tasks) : worker_lock(t)
    \/ \E t \in 1..Len(tasks) : worker_fill(t)
    \/ \E t \in 1..Len(tasks) : worker_finish(t)

SpecAddFill == Init /\ [][NextAddFill]_vars

(* -------------------- Histogram / Histogram2D alone -------------------- *)
\* calls on one free-standing Histogram and one Histogram2D, whose geometry
\* is drawn at the start; step k of MaxCalls is passed as the progress
Values2 == {-10, 5, 50, 100}

InitUnit ==
    /\ InitRegistry
    /\ h1 \in {Histogram_new("u", g[1], g[2]) : g \in Geoms1}
    /\ h2 \in {Histogram2D_new("u", g[1], g[2]) : g \in Geoms2}
    /\ nfills = 0
    /\ fed = [v \in Values |-> 0]
    /\ InitFits

unit_fill(value) ==
    /\ nfills < MaxCalls
    /\ h1' = Histogram_fill(h1, value, nfills, MaxCalls)
    /\ nfills' = nfills + 1
    /\ fed' = [fed EXCEPT ![value] = @ + 1]
    /\ UNCHANGED <<hists, holder, poisoned, tiles, handles, tasks, owner, h2, fitter, fits, file, containers, root,
                   grid_histogram_map>>

unit_fill2d(x, y) ==
    /\ nfills < MaxCalls
    /\ h2' = Histogram2D_fill(h2, x, y, nfills, MaxCalls)
    /\ nfills' = nfills + 1
    /\ UNCHANGED <<hists, holder, poisoned, tiles, handles, tasks, owner, h1, fed, fitter, fits, file, containers, root,
                   grid_histogram_map>>

unit_reset ==
    /\ nfills < MaxCalls
    /\ h1' = Histogram_reset(h1)
    /\ h2' = Histogram_reset(h2)
    /\ nfills' = nfills + 1
    /\ fed' = [v \in Values |-> 0]
    /\ UNCHANGED <<hists, holder, poisoned, tiles, handles, tasks, owner, fitter, fits, file, containers, root,
                   grid_histogram_map>>

NextUnit ==
    \/ \E v \in Values : unit_fill(v)
    \/ \E x \in Values2, y \in Values2 : unit_fill2d(x, y)
    \/ unit_reset

SpecUnit == InitUnit /\ [][NextUnit]_vars

(* ----------------------------- one Fitter ------------------------------ *)
\* x_data and y_data a caller gives a Fitter: four points on y = 2x + 3, two
\* points of one x, and a single point
DataSets ==
    { [x |-> <<0, 1, 2, 3>>, y |-> <<3, 5, 7, 9>>],
      [x |-> <<2, 2>>, y |-> <<1, 5>>],
      [x |-> <<1>>, y |-> <<4>>] }

\* the sample points of a background: two points on y = x + 1, or one point
GoodBackground == BackgroundFitter_new(<<0, 2>>, <<1, 3>>)
PoorBackground == BackgroundFitter_new(<<1>>, <<2>>)

Backgrounds ==
    {None, Some(GoodBackground), Some(PoorBackground),
     Some(BackgroundFitter_fit(GoodBackground))}

Models == {Gaussian(<<>>), Gaussian(<<1>>), Gaussian(<<1, 2>>), Linear}

\* Fitter::new; nfills counts the fit() calls made on the Fitter
fitter_new(model, background) ==
    /\ fitter' = Fitter_new(model, background)
    /\ nfills' = 0
    /\ UNCHANGED <<hists, holder, poisoned, tiles, handles, tasks, owner, h1, h2,
                   fed, fits, file, containers, root,
                   grid_histogram_map>>

\* the caller's assignment of x_data and y_data
fitter_set_data(d) ==
    /\ fitter' = [fitter EXCEPT !.x_data = d.x, !.y_data = d.y]
    /\ UNCHANGED <<hists, holder, poisoned, tiles, handles, tasks, owner, h1, h2,
                   nfills, fed, fits, file, containers, root,
                   grid_histogram_map>>

fitter_fit ==
    /\ nfills < MaxFits
    /\ fitter' = Fitter_fit(fitter)
    /\ nfills' = nfills + 1
    /\ UNCHANGED <<hists, holder, poisoned, tiles, handles, tasks, owner, h1, h2,
                   fed, fits, file, containers, root,
                   grid_histogram_map>>

NextFitter ==
    \/ \E model \in Models, background \in Backgrounds : fitter_new(model, background)
    \/ \E d \in DataSets : fitter_set_data(d)
    \/ fitter_fit

SpecFitter == Init /\ [][NextFitter]_vars

(* --------------------------- a Fits collection ------------------------- *)
\* the Fitters a caller puts in the in-progress slot: not yet fitted, fitted
\* with a background, and a fitted line
NewFit == [Fitter_new(Gaussian(<<1>>), Some(GoodBackground)) EXCEPT
              !.x_data = <<0, 1, 2, 3>>, !.y_data = <<3, 5, 7, 9>>]

FitterSamples ==
    { NewFit, Fitter_fit(NewFit),
      Fitter_fit([Fitter_new(Linear, None) EXCEPT
                     !.x_data = <<0, 1, 2, 3>>, !.y_data = <<3, 5, 7, 9>>]) }

\* the caller's assignment of temp_fit
fits_set_temp_fit(f) ==
    /\ fits' = [fits EXCEPT !.temp_fit = Some(f)]
    /\ UNCHANGED <<hists, holder, poisoned, tiles, handles, tasks, owner, h1, h2,
                   nfills, fed, fitter, file, containers, root,
                   grid_histogram_map>>

\* the caller's assignment of temp_background_fit
fits_set_temp_background_fit(b) ==
    /\ fits' = [fits EXCEPT !.temp_background_fit = Some(b)]
    /\ UNCHANGED <<hists, holder, poisoned, tiles, handles, tasks, owner, h1, h2,
                   nfills, fed, fitter, file, containers, root,
                   grid_histogram_map>>

\* finalize: the in-progress fit is appended to the stored fits
fits_store ==
    /\ fits.temp_fit # None
    /\ Len(fits.stored_fits) < MaxStored
    /\ fits' = [fits EXCEPT !.stored_fits = Append(@, fits.temp_fit[1]),
                            !.temp_fit = None]
    /\ UNCHANGED <<hists, holder, poisoned, tiles, handles, tasks, owner, h1, h2,
                   nfills, fed, fitter, file, containers, root,
                   grid_histogram_map>>

\* self.stored_fits.remove(index), from the "X" button of the grid
fits_remove(index) ==
    /\ index \in 1..Len(fits.stored_fits)
    /\ fits' = [fits EXCEPT !.stored_fits =
                   SubSeq(@, 1, index - 1) \o SubSeq(@, index + 1, Len(@))]
    /\ UNCHANGED <<hists, holder, poisoned, tiles, handles, tasks, owner, h1, h2,
                   nfills, fed, fitter, file, containers, root,
                   grid_histogram_map>>

\* Fits::remove_temp_fits
remove_temp_fits ==
    /\ fits' = [fits EXCEPT !.temp_fit = None, !.temp_background_fit = None]
    /\ UNCHANGED <<hists, holder, poisoned, tiles, handles, tasks, owner, h1, h2,
                   nfills, fed, fitter, file, containers, root,
                   grid_histogram_map>>

Dialogs == {"cancel", "err", "ok"}

save_to_file ==
    /\ \E dialog \in Dialogs : file' = save(fits, file, dialog)
    /\ UNCHANGED <<hists, holder, poisoned, tiles, handles, tasks, owner, h1, h2,
                   nfills, fed, fitter, fits, containers, root,
                   grid_histogram_map>>

load_from_file ==
    /\ \E dialog \in Dialogs :
          /\ fits' = load(fits, file, dialog)
          /\ Len(fits'.stored_fits) <= MaxStored
    /\ UNCHANGED <<hists, holder, poisoned, tiles, handles, tasks, owner, h1, h2,
                   nfills, fed, fitter, file, containers, root,
                   grid_histogram_map>>

NextFits ==
    \/ \E f \in FitterSamples : fits_set_temp_fit(f)
    \/ \E b \in {GoodBackground, BackgroundFitter_fit(GoodBackground)} :
          fits_set_temp_background_fit(b)
    \/ fits_store
    \/ \E index \in 1..MaxStored : fits_remove(index)
    \/ remove_temp_fits
    \/ save_to_file
    \/ load_from_file

SpecFits == Init /\ [][NextFits]_vars

(* ------------------------- histograms in grids ------------------------- *)
\* a caller that makes its own grids and adds histograms with and without a
\* placement; the geometries include a bin count of 0, an inverted range and
\* an empty one
TabNames == {"Run"}

PlacedGeoms1 == { << <<10>>, << <<0, 100>> >> >>, << <<0>>, << <<0, 100>> >> >>,
                  << <<2>>, << <<50, 50>> >> >> }
PlacedGeoms2 == { << <<2, 2>>, << <<0, 100>>, <<0, 100>> >> >>,
                  << <<2, 2>>, << <<0, 100>>, <<100, 0>> >> >> }

\* what a caller can pass as grid: nothing, any container, an id of no tile
GridArgs ==
    {None} \cup {Some(-k) : k \in 1..Len(containers)} \cup {Some(UnknownTile)}

CallerGrids ==
    {k \in 1..Len(containers) :
        containers[k].kind = "Grid" /\ containers[k].tab_name # Some("Other")}

create_grid_call(tab_name) ==
    /\ owner = "running"
    /\ Cardinality(CallerGrids) < MaxGrids
    /\ Becomes(create_grid(Registry, tab_name))
    /\ UNCHANGED <<h1, h2, nfills, fed, fitter, fits, file>>

NextPlacement ==
    \/ \E tab_name \in TabNames : create_grid_call(tab_name)
    \/ \E name \in AddNames, g \in PlacedGeoms1, grid \in GridArgs :
          add_hist1d(name, g[1], g[2], grid)
    \/ \E name \in AddNames, g \in PlacedGeoms2, grid \in GridArgs :
          add_hist2d(name, g[1], g[2], grid)

SpecPlacement == Init /\ [][NextPlacement]_vars

(* ------------------------ a range that is changed ---------------------- *)
\* a 1D histogram whose range is written, under its lock, by another holder
\* of the shared histogram while fills of it are requested and run
Ranges == { << <<0, 100>> >>, << <<0, 50>> >> }

set_range(h, range) ==
    /\ owner = "running"
    /\ CanLock(h)
    /\ ~poisoned[h]
    /\ hists[h].range # range
    /\ hists' = [hists EXCEPT ![h].range = range]
    /\ UNCHANGED <<holder, poisoned, tiles, handles, tasks, owner, h1, h2, nfills, fed,
                   fitter, fits, file, containers, root, grid_histogram_map>>

NextRange ==
    \/ \E name \in AddNames, g \in Geoms1 : add_hist1d(name, g[1], g[2], None)
    \/ \E name \in AddNames : fill_hist1d(name, "x")
    \/ \E h \in 1..Len(hists), range \in Ranges : set_range(h, range)
    \/ \E t \in 1..Len(tasks) : worker_collect(t)
    \/ \E t \in 1..Len(tasks) : worker_lock(t)
    \/ \E t \in 1..Len(tasks) : worker_fill(t)
    \/ \E t \in 1..Len(tasks) : worker_finish(t)

SpecRange == Init /\ [][NextRange]_vars

(* ------------------------- threads that are run ------------------------ *)
\* 1D fills through add_fill_hist1d on a machine that runs its threads: a spawned
\* thread that can take a step takes one, a thread that asks for the lock of
\* its histogram again and again while the lock keeps coming free gets it,
\* and the owner keeps calling check_and_join_finished_threads (from ui)
ThreadStep(t) ==
    /\ t \in 1..Len(tasks)
    /\ (worker_collect(t) \/ worker_fill(t))

ThreadLock(t) ==
    /\ t \in 1..Len(tasks)
    /\ (worker_lock(t) \/ worker_finish(t))

Scheduling ==
    /\ \A t \in 1..MaxTasks : WF_vars(ThreadStep(t)) /\ SF_vars(ThreadLock(t))
    /\ WF_vars(check_and_join_finished_threads)

NextLive ==
    \/ \E name \in AddNames, c \in ColumnNames, g \in Geoms1 :
          add_fill_hist1d(name, c, g[1], g[2], None)
    \/ check_and_join_finished_threads
    \/ \E t \in 1..Len(tasks) : worker_collect(t)
    \/ \E t \in 1..Len(tasks) : worker_lock(t)
    \/ \E t \in 1..Len(tasks) : worker_fill(t)
    \/ \E t \in 1..Len(tasks) : worker_finish(t)

SpecLive == Init /\ [][NextLive]_vars /\ Scheduling

(* --------------------------- a list of handles ------------------------- *)
\* the registry after one add_hist1d and n fill_hist1d of a column the frame
\* does not have: n handles, whose threads end at their collect, in any
\* order, between the polls of the owner
RECURSIVE FilledTimes(_, _)
FilledTimes(R, n) ==
    IF n = 0 THEN R
    ELSE fill_hist(FilledTimes(R, n - 1), "Histogram", "a", <<"q">>, FALSE)

NewHistogrammer ==
    [hists |-> <<>>, holder |-> <<>>, poisoned |-> <<>>, tiles |-> <<>>,
     handles |-> <<>>, tasks |-> <<>>, owner |-> "running",
     containers |-> <<>>, root |-> NoTile, grid_histogram_map |-> <<>>,
     ret |-> TRUE, err |-> FALSE]

InitJoin ==
    \E n \in 1..MaxHandles :
        LET R == FilledTimes(add_hist(NewHistogrammer, "Histogram", "a", <<10>>,
                                      << <<0, 100>> >>, FALSE, None), n)
        IN  /\ hists = R.hists
            /\ holder = R.holder
            /\ poisoned = R.poisoned
            /\ tiles = R.tiles
            /\ handles = R.handles
            /\ tasks = R.tasks
            /\ owner = R.owner
            /\ containers = R.containers
            /\ root = R.root
            /\ grid_histogram_map = R.grid_histogram_map
            /\ h1 = UnitHist1
            /\ h2 = UnitHist2
            /\ nfills = 0
            /\ fed = [v \in Values |-> 0]
            /\ InitFits

NextJoin ==
    \/ \E t \in 1..Len(tasks) : worker_collect(t)
    \/ check_and_join_finished_threads

SpecJoin == InitJoin /\ [][NextJoin]_vars

(* ------------------------------- claims -------------------------------- *)
RECURSIVE SumFn(_, _)
SumFn(f, n) == IF n = 0 THEN 0 ELSE f[n] + SumFn(f, n - 1)

\* the cell (1-based, row-major) that counts `row` in histogram h; 0 if the
\* row is outside the range on some axis
CellOf(h, row) ==
    IF \A a \in 1..Len(h.bins) : InRange(row[a], h.range[a])
    THEN IF Len(h.bins) = 1
         THEN BinIndex(row[1], h.range[1], h.bins[1]) + 1
         ELSE BinIndex(row[2], h.range[2], h.bins[2]) * h.bins[1]
                + BinIndex(row[1], h.range[1], h.bins[1]) + 1
    ELSE 0

TasksOn(h) == {t \in 1..Len(tasks) : tasks[t].hist = h}

\* what task t has contributed to cell k of its histogram since the
\* histogram was last reset
Contribution(t, k) ==
    Cardinality({j \in (tasks[t].mark + 1)..tasks[t].i :
                    CellOf(hists[tasks[t].hist], tasks[t].rows[j]) = k})

Contributions(h, k) ==
    SumFn([t \in 1..Len(tasks) |-> IF tasks[t].hist = h THEN Contribution(t, k) ELSE 0],
          Len(tasks))

Completed(t) == tasks[t].pc = "done"

\* C1: when two or more fill tasks target the same histogram, then once all
\* of them have completed every bin holds the sum of what each task
\* contributed to it (since the last reset): no increment is lost.
C1_NoLostUpdate ==
    \A h \in 1..Len(hists) :
        (Cardinality(TasksOn(h)) >= 2 /\ \A t \in TasksOn(h) : Completed(t))
            => \A k \in 1..Len(hists[h].counts) :
                  hists[h].counts[k] = Contributions(h, k)

\* two tasks on one histogram, both run to the end, each having counted rows
C1_Witness ==
    \E h \in 1..Len(hists) : \E t \in TasksOn(h), u \in TasksOn(h) :
        /\ t # u
        /\ Completed(t) /\ Completed(u)
        /\ tasks[t].outcome = "ok" /\ tasks[u].outcome = "ok"
        /\ tasks[t].i >= 2 /\ tasks[u].i >= 2
        /\ tasks[t].mark = 0 /\ tasks[u].mark = 0
        /\ SumSeq(hists[h].counts) = tasks[t].i + tasks[u].i

\* C2: after fill_hist1d on a fresh histogram has completed, the sum of the
\* bin counts is the number of source values v with min <= v < max.
C2_SumIsInRangeCount ==
    \A t \in 1..Len(tasks) :
        LET h == tasks[t].hist IN
        (/\ hists[h].kind = "Histogram"
         /\ TasksOn(h) = {t}
         /\ Completed(t) /\ tasks[t].outcome = "ok" /\ ~tasks[t].failed
         /\ tasks[t].mark = 0)
            => SumSeq(hists[h].counts) =
                 Cardinality({k \in 1..Len(lf[tasks[t].cols[1]]) :
                                InRange(lf[tasks[t].cols[1]][k], hists[h].range[1])})

\* C3: for every v with min <= v < max, fill(v, _, _) adds one to bin
\* floor((v - min) / (max - min) * bin_count) and leaves every other bin as
\* it was; 10 bins over [0, 10) filled with 0.5, 1.5, 9.9, 10.0 and -1.0
\* hold 1 in bin 0, 1 in bin 1, 1 in bin 9 and 3 in total.
C3_Example ==
    (/\ h1.bins = <<10>>
     /\ h1.range = << <<0, 100>> >>
     /\ fed = [v \in Values |-> IF v \in {5, 15, 99, 100, -10} THEN 1 ELSE 0])
        => /\ h1.counts[1] = 1
           /\ h1.counts[2] = 1
           /\ h1.counts[10] = 1
           /\ SumSeq(h1.counts) = 3

C3_FillIncrementsOwningBin ==
    /\ [][\A v \in Values :
            LET min == h1.range[1][1]
                max == h1.range[1][2]
                bin == ((v - min) * h1.bins[1]) \div (max - min)
            IN  (fed'[v] = fed[v] + 1 /\ min <= v /\ v < max)
                   => h1'.counts = [h1.counts EXCEPT ![bin + 1] = @ + 1]]_vars
    /\ []C3_Example

\* the five values of the example have been filled into 10 bins over [0, 10)
C3_Witness ==
    /\ h1.bins = <<10>>
    /\ h1.range = << <<0, 100>> >>
    /\ fed = [v \in Values |-> IF v \in {5, 15, 99, 100, -10} THEN 1 ELSE 0]
    /\ SumSeq(h1.counts) = 3

\* C4: for every v with v < min or v >= max (v = max included) fill leaves
\* all bin counts as they were; a pair changes the counts of a Histogram2D
\* only if both components are in range on their own axis.
Outside(v, rng) == v < rng[1] \/ v >= rng[2]

C4_OutOfRangeIsNoOp ==
    [][/\ \A v \in Values :
             (fed'[v] = fed[v] + 1 /\ Outside(v, h1.range[1]))
                => h1'.counts = h1.counts
       /\ \A x \in Values2, y \in Values2 :
             (unit_fill2d(x, y) /\ (Outside(x, h2.range[1]) \/ Outside(y, h2.range[2])))
                => h2'.counts = h2.counts]_vars

\* values at and beyond both ends were filled, and a pair with a component
\* out of range, and nothing was counted
C4_Witness ==
    /\ fed[100] >= 1 /\ fed[-10] >= 1
    /\ h1.range[1][2] = 100
    /\ SumSeq(h1.counts) = 0
    /\ h2.progress # NoProgress
    /\ SumSeq(h2.counts) = 0

Kinds == {"Histogram", "Histogram2D"}

GeomsOf(kind) == IF kind = "Histogram" THEN Geoms1 ELSE Geoms2

ColumnsOf(kind) == IF kind = "Histogram" THEN {<<c>> : c \in ColumnNames} ELSE ColumnPairs

\* the positions in the tree of the histograms of this kind and name
Matching(kind, name) ==
    {k \in 1..Len(tiles) : hists[tiles[k]].kind = kind /\ hists[tiles[k]].name = name}

AllZero(counts) == \A k \in 1..Len(counts) : counts[k] = 0

\* C5: add_hist1d / add_hist2d with the name of an existing histogram of
\* that dimensionality zeroes its counts in place, keeps its bins and range
\* whatever the call supplies and creates nothing; so the registry never
\* holds two histograms of one name and dimensionality.
C5_AddExistingResetsInPlace ==
    \A kind \in Kinds, name \in Names :
        /\ Cardinality(Matching(kind, name)) <= 1
        /\ \A g \in GeomsOf(kind) :
              Matching(kind, name) # {} =>
                LET h  == tiles[CHOOSE k \in Matching(kind, name) : TRUE]
                    R2 == add_hist(Registry, kind, name, g[1], g[2], FALSE, None)
                IN  /\ R2.tiles = tiles
                    /\ Len(R2.hists) = Len(hists)
                    /\ AllZero(R2.hists[h].counts)
                    /\ Len(R2.hists[h].counts) = Len(hists[h].counts)
                    /\ R2.hists[h].bins = hists[h].bins
                    /\ R2.hists[h].range = hists[h].range
                    /\ R2.hists[h].name = name
                    /\ \A o \in 1..Len(hists) : o # h => R2.hists[o] = hists[o]

\* a histogram that had counted rows was added again and is empty, and the
\* call may supply a geometry that is not the histogram's
C5_Witness ==
    \E t \in 1..Len(tasks) :
        LET h == hists[tasks[t].hist] IN
        /\ tasks[t].mark >= 1
        /\ AllZero(h.counts)
        /\ Len(tiles) = 1
        /\ \E g \in GeomsOf(h.kind) : g[1] # h.bins

\* C6: fill_hist1d / fill_hist2d with a name that matches no histogram of
\* the dimensionality returns false and logs an error, does not panic,
\* spawns no task, adds no handle and leaves every histogram as it is.
C6_FillUnknownNameFails ==
    \A kind \in Kinds, name \in Names, early \in BOOLEAN : \A cols \in ColumnsOf(kind) :
        Matching(kind, name) = {} =>
            LET R2 == fill_hist(Registry, kind, name, cols, early)
            IN  /\ R2.ret = FALSE
                /\ R2.err
                /\ R2.owner = "running"
                /\ R2.tasks = tasks
                /\ R2.handles = handles
                /\ R2.hists = hists

\* a name is unknown for a kind of which the registry holds a histogram
\* that is being filled
C6_Witness ==
    \E kind \in Kinds, name \in Names :
        /\ Matching(kind, name) = {}
        /\ \E k \in 1..Len(tiles) :
              /\ hists[tiles[k]].kind = kind
              /\ hists[tiles[k]].progress # NoProgress
              /\ SumSeq(hists[tiles[k]].counts) >= 1
        /\ handles # <<>>

\* C7: a successful fill_hist1d / fill_hist2d returns true having pushed
\* exactly one new handle, whose thread has not yet materialized anything
\* nor contributed a value: the call does not wait for the fill.
C7_Dispatched ==
    \A kind \in Kinds, name \in Names : \A cols \in ColumnsOf(kind) :
        Matching(kind, name) # {} =>
            LET R2 == fill_hist(Registry, kind, name, cols, FALSE)
                t  == Len(tasks) + 1
            IN  /\ R2.ret = TRUE
                /\ R2.handles = Append(handles, t)
                /\ Len(R2.tasks) = t
                /\ SubSeq(R2.tasks, 1, Len(tasks)) = tasks
                /\ R2.tasks[t].pc = "start"
                /\ R2.tasks[t].rows = <<>>
                /\ R2.tasks[t].i = 0
                /\ R2.hists = hists

C7_FillReturnsAtOnce ==
    /\ []C7_Dispatched
    /\ [][Len(tasks') > Len(tasks) =>
            /\ Len(tasks') = Len(tasks) + 1
            /\ handles' = Append(handles, Len(tasks'))
            /\ tasks'[Len(tasks')].pc = "start"
            /\ tasks'[Len(tasks')].outcome = "running"
            /\ hists' = hists]_vars

\* the newest handle is of a thread that has not started, while an older
\* thread is in the middle of its fill
C7_Witness ==
    /\ Len(handles) >= 2
    /\ tasks[handles[Len(handles)]].pc = "start"
    /\ \E t \in 1..Len(tasks) : tasks[t].pc = "locked"

\* C8: a task whose materialization fails reports it and touches nothing:
\* the histogram keeps its counts and progress, no other task is changed,
\* and the tasks sharing the histogram still end with the counts of all
\* the rows they select.
FinalContribution(t, k) ==
    LET rows == Collect(tasks[t].cols, tasks[t].filt) IN
    IF tasks[t].failed \/ tasks[t].outcome # "ok" THEN 0
    ELSE Cardinality({j \in (tasks[t].mark + 1)..Len(rows) :
                        CellOf(hists[tasks[t].hist], rows[j]) = k})

C8_OthersUnaffected ==
    \A h \in 1..Len(hists) :
        (/\ \E t \in TasksOn(h) : tasks[t].failed
         /\ \A t \in TasksOn(h) : Completed(t))
            => \A k \in 1..Len(hists[h].counts) :
                  hists[h].counts[k] =
                     SumFn([t \in 1..Len(tasks) |->
                              IF tasks[t].hist = h THEN FinalContribution(t, k) ELSE 0],
                           Len(tasks))

C8_FailedCollectTouchesNothing ==
    /\ []C8_OthersUnaffected
    /\ [][\A t \in 1..Len(tasks) :
            (tasks[t].pc = "start" /\ tasks'[t].failed) =>
                /\ hists' = hists
                /\ holder' = holder
                /\ poisoned' = poisoned
                /\ handles' = handles
                /\ tasks'[t].outcome = "ok"
                /\ tasks'[t].pc = "done"
                /\ \A u \in 1..Len(tasks) : u # t => tasks'[u] = tasks[u]]_vars

\* a task failed to materialize on a histogram that another task filled
C8_Witness ==
    \E t \in 1..Len(tasks), u \in 1..Len(tasks) :
        /\ tasks[t].hist = tasks[u].hist
        /\ tasks[t].failed /\ Completed(t)
        /\ tasks[u].outcome = "ok" /\ ~tasks[u].failed /\ tasks[u].i >= 2
        /\ tasks[u].mark = 0
        /\ SumSeq(hists[tasks[u].hist].counts) = 2

\* C9: once a fill task has panicked, wherever it was, the panic is reported
\* when its handle is joined and the owner of the registry keeps running:
\* add, fill and poll-and-join on any histogram complete without panicking.
C9_PanicDoesNotCrashOwner ==
    (\E t \in 1..Len(tasks) : tasks[t].outcome = "panic") =>
        /\ owner = "running"
        /\ \A kind \in Kinds, name \in Names, early \in BOOLEAN :
              /\ \A g \in GeomsOf(kind) :
                    add_hist(Registry, kind, name, g[1], g[2], early, None).owner = "running"
              /\ \A cols \in ColumnsOf(kind) :
                    fill_hist(Registry, kind, name, cols, early).owner = "running"
        /\ check_and_join(Registry).owner = "running"
        /\ (\E k \in 1..Len(handles) : tasks[handles[k]].outcome = "panic")
              => check_and_join(Registry).err

\* C10: the outcome of every dispatched task is surfaced exactly once: a
\* handle is joined at most once, and a task whose handle the registry no
\* longer holds has been joined.
C10_EveryOutcomeSurfacedOnce ==
    \A t \in 1..Len(tasks) :
        /\ tasks[t].joined <= 1
        /\ t \notin Range(handles) => tasks[t].joined = 1

\* C11: within one fill task the rows are taken in source order and the
\* contribution of row i of n sets the progress to i / n: the task's k-th
\* write is (k - 1) / n, so what it writes strictly increases and stays
\* within [0, 1].
C11_Contributes(t) ==
    /\ tasks[t].pc = "locked"
    /\ tasks'[t].pc = "loop"
    /\ tasks'[t].outcome = "running"

C11_ProgressIncreases ==
    [][\A t \in 1..Len(tasks) :
          /\ tasks'[t].i >= tasks[t].i
          /\ tasks[t].pc # "start" => tasks'[t].rows = tasks[t].rows
          /\ tasks'[t].pc = "loop" =>
                tasks'[t].rows = Collect(tasks[t].cols, tasks[t].filt)
          /\ C11_Contributes(t) =>
                LET i == tasks[t].i
                    n == Len(tasks[t].rows)
                    p == hists'[tasks[t].hist].progress
                IN  /\ tasks'[t].i = i + 1
                    /\ p = <<i, n>>
                    /\ 0 <= p[1] /\ p[1] <= p[2] /\ p[2] > 0
                    /\ hists'[tasks[t].hist].counts =
                          Fill(tasks[t].seen, tasks[t].rows[i + 1], i, n).counts]_vars

\* a task has just made its second contribution of two
C11_Witness ==
    \E t \in 1..Len(tasks) :
        /\ tasks[t].i = 2
        /\ Len(tasks[t].rows) = 2
        /\ hists[tasks[t].hist].progress = <<1, 2>>

\* C12: fills of two different histograms do not affect each other: a step
\* of a task changes no histogram but its own, and once the tasks of a
\* histogram have completed its counts are those of the rows its own tasks
\* select from their own columns, whatever the tasks of the other
\* histograms did or are doing.
AloneCounts(h) ==
    [k \in 1..Len(hists[h].counts) |->
        SumFn([t \in 1..Len(tasks) |->
                 IF tasks[t].hist = h THEN FinalContribution(t, k) ELSE 0],
              Len(tasks))]

C12_FinalCountsAsAlone ==
    \A h \in 1..Len(hists) :
        (/\ \A t \in TasksOn(h) : Completed(t)
         /\ \E o \in 1..Len(hists) : o # h /\ TasksOn(o) # {})
            => hists[h].counts = AloneCounts(h)

C12_DifferentHistogramsIndependent ==
    /\ []C12_FinalCountsAsAlone
    /\ [][\A t \in 1..Len(tasks) :
            (tasks'[t].pc # tasks[t].pc \/ tasks'[t].i # tasks[t].i) =>
                \A o \in 1..Len(hists) :
                    o # tasks[t].hist =>
                        /\ hists'[o] = hists[o]
                        /\ holder'[o] = holder[o]
                        /\ \A u \in TasksOn(o) : tasks'[u] = tasks[u]]_vars

\* a histogram was filled to the end while a task on another histogram was
\* in the middle of its own fill, and both have counted
C12_Witness ==
    \E t \in 1..Len(tasks), u \in 1..Len(tasks) :
        /\ tasks[t].hist # tasks[u].hist
        /\ Completed(t) /\ tasks[t].outcome = "ok" /\ tasks[t].mark = 0
        /\ tasks[t].i >= 1
        /\ SumSeq(hists[tasks[t].hist].counts) = tasks[t].i
        /\ tasks[u].pc = "locked" /\ tasks[u].i >= 1
        /\ SumSeq(hists[tasks[u].hist].counts) >= 1

\* C13: a histogram that is reset and filled again from the same dataset
\* ends with the counts of one fill: after add_fill_hist1d / add_fill_hist2d
\* was called any number of times with one name and one source, and the
\* fills have completed, the counts are those of a single fill.
SingleFillCounts(h, cols) ==
    LET rows == Collect(cols, hists[h].range) IN
    [k \in 1..Len(hists[h].counts) |->
        Cardinality({j \in 1..Len(rows) : CellOf(hists[h], rows[j]) = k})]

C13_RefillSameCounts ==
    \A h \in 1..Len(hists) : \A t \in TasksOn(h) :
        (\A u \in TasksOn(h) :
            /\ Completed(u) /\ tasks[u].outcome = "ok" /\ ~tasks[u].failed
            /\ tasks[u].cols = tasks[t].cols)
            => hists[h].counts = SingleFillCounts(h, tasks[t].cols)

\* C14: fit() replaces the previous outcome as a whole: fitting once more on
\* unchanged data and model leaves the result and the decomposed curves as
\* they were after the fit before, and neither depends on what an earlier
\* fit had left in the Fitter.
Unfitted(f) == [f EXCEPT !.result = None, !.deconvoluted_lines = <<>>]

C14_RefitReplaces ==
    LET once  == Fitter_fit(fitter)
        twice == Fitter_fit(once)
    IN  /\ twice.result = once.result
        /\ twice.deconvoluted_lines = once.deconvoluted_lines
        /\ once.result = Fitter_fit(Unfitted(fitter)).result
        /\ once.deconvoluted_lines = Fitter_fit(Unfitted(fitter)).deconvoluted_lines

\* C15: a Fitter with a Gaussian model of N initial peak centers holds N
\* decomposed lines after any number of fit() invocations.
C15_OneLinePerPeak ==
    (fitter.model.kind = "Gaussian" /\ fitter.result # None)
        => Len(fitter.deconvoluted_lines) = Len(fitter.model.peak_markers)

\* C16: fit() fits the attached background, before the model fit, exactly
\* when a background is attached and has no result; a background that has a
\* result is left as it is; and the y-data given to the model fitter is the
\* raw y minus the evaluated background when a background result is
\* available, the raw y otherwise.
HasResult(b) == b # None /\ b[1].result # None

Evaluated(b, x) == [k \in 1..Len(x) |-> b[1].result[1].slope * x[k] + b[1].result[1].intercept]

C16_BackgroundFirstIfUnfitted ==
    [][fitter_fit =>
          LET b  == fitter.background
              b2 == fitter'.background
          IN  /\ b = None => b2 = None
              /\ (b # None /\ b[1].result = None) =>
                    /\ b2[1].fits_run = b[1].fits_run + 1
                    /\ b2[1].x_data = b[1].x_data /\ b2[1].y_data = b[1].y_data
              /\ HasResult(b) => b2 = b
              /\ fitter'.result # None
              /\ fitter'.result[1].x = fitter.x_data
              /\ fitter'.result[1].y =
                    IF HasResult(b2)
                    THEN [k \in 1..Len(fitter.y_data) |->
                            fitter.y_data[k] - Evaluated(b2, fitter.x_data)[k]]
                    ELSE fitter.y_data]_vars

\* fit() ran twice on a Fitter whose background had no result: the background
\* was fitted once and the model was fitted to the corrected y
C16_Witness ==
    /\ nfills = 2
    /\ HasResult(fitter.background)
    /\ fitter.background[1].fits_run = 1
    /\ fitter.result # None
    /\ fitter.y_data = <<3, 5, 7, 9>>
    /\ fitter.result[1].y = <<2, 3, 4, 5>>

\* C17: fit() with the Linear model on degenerate input (fewer than 2 points
\* or zero x-variance) stores no result: the Fitter's result is what it was
\* before the call.
Degenerate(x) == Len(x) < 2 \/ \A j \in 1..Len(x), k \in 1..Len(x) : x[j] = x[k]

C17_DegenerateLinearStoresNothing ==
    [][(fitter_fit /\ fitter.model.kind = "Linear" /\ Degenerate(fitter.x_data))
          => fitter'.result = fitter.result]_vars

\* C18: get_peak_markers returns the initial peak centers of a Gaussian
\* model while the Fitter has no result, the markers kept in the Gaussian
\* result once a fit has run, and the empty sequence for a Linear model.
C18_PeakMarkersBeforeFit ==
    /\ (fitter.model.kind = "Gaussian" /\ fitter.result = None)
          => get_peak_markers(fitter) = fitter.model.peak_markers
    /\ (fitter.model.kind = "Gaussian" /\ fitter.result # None)
          => /\ fitter.result[1].kind = "Gaussian"
             /\ get_peak_markers(fitter) = fitter.result[1].peak_markers
    /\ fitter.model.kind = "Linear" => get_peak_markers(fitter) = <<>>

\* a Gaussian Fitter of two peaks that has its data and has not been fitted
C18_Witness ==
    /\ fitter.model = Gaussian(<<1, 2>>)
    /\ fitter.result = None
    /\ fitter.x_data = <<0, 1, 2, 3>>
    /\ get_peak_markers(fitter) = <<1, 2>>

\* C19: loading a saved collection appends the loaded stored fits after the
\* existing ones, which stay first and unchanged (the length is the sum of
\* both), and replaces the in-progress fit and the in-progress background
\* by the loaded ones, whatever they were.
C19_Loaded(before, after, loaded_fits) ==
    /\ Len(after.stored_fits) = Len(before.stored_fits) + Len(loaded_fits.stored_fits)
    /\ SubSeq(after.stored_fits, 1, Len(before.stored_fits)) = before.stored_fits
    /\ SubSeq(after.stored_fits, Len(before.stored_fits) + 1, Len(after.stored_fits))
          = loaded_fits.stored_fits
    /\ after.temp_fit = loaded_fits.temp_fit
    /\ after.temp_background_fit = loaded_fits.temp_background_fit

C19_LoadNow ==
    file # None => C19_Loaded(fits, load(fits, file, "ok"), from_str(file[1]))

C19_LoadAppendsAndOverrides ==
    /\ []C19_LoadNow
    /\ [][(load_from_file /\ fits' # fits) =>
             C19_Loaded(fits, fits', from_str(file[1]))]_vars

\* a collection with a stored fit and an in-progress fit, and a saved file
\* with a stored fit of its own and another in-progress fit and background
C19_Witness ==
    /\ Len(fits.stored_fits) = 1
    /\ fits.temp_fit # None
    /\ file # None
    /\ Len(from_str(file[1]).stored_fits) = 1
    /\ from_str(file[1]).stored_fits # fits.stored_fits
    /\ from_str(file[1]).temp_fit # fits.temp_fit
    /\ from_str(file[1]).temp_background_fit # fits.temp_background_fit

RecordedUnder(R, p) ==
    {k \in 1..Len(R.grid_histogram_map) :
        \E j \in 1..Len(R.grid_histogram_map[k]) : R.grid_histogram_map[k][j] = p}

\* how many times the placement map holds pane p
TimesRecorded(R, p) ==
    SumSeq([k \in 1..Len(R.grid_histogram_map) |->
              Cardinality({j \in 1..Len(R.grid_histogram_map[k]) :
                              R.grid_histogram_map[k][j] = p})])

\* C21: among grids made by the caller under other names, there is never
\* more than one "Other" grid, and an add of a new name without a placement,
\* from any state the registry can be in, leaves exactly one "Other" grid (the
\* one there was, if there was one), with the new pane as a child of it and
\* recorded under it, once, and under no other container.
C21_OneOtherGrid ==
    /\ Cardinality(OtherGrids(Registry)) <= 1
    /\ \A kind \in Kinds, name \in Names :
          (owner = "running" /\ Find(Registry, kind, name) = {}) =>
             \A g \in GeomsOf(kind) :
                LET R2    == add_hist(Registry, kind, name, g[1], g[2], FALSE, None)
                    pane  == Len(hists) + 1
                    other == CHOOSE o \in OtherGrids(R2) : TRUE
                IN  /\ Cardinality(OtherGrids(R2)) = 1
                    /\ OtherGrids(Registry) \subseteq OtherGrids(R2)
                    /\ R2.tiles = Append(tiles, pane)
                    /\ RecordedUnder(R2, pane) = {-other}
                    /\ TimesRecorded(R2, pane) = 1
                    /\ R2.containers[-other].children
                          = (IF OtherGrids(Registry) = {} THEN <<>>
                             ELSE containers[-other].children) \o <<pane>>

\* two histograms were added without a placement after the caller had made
\* a grid of its own: both are recorded under the one "Other" grid
C21_Witness ==
    /\ CallerGrids # {}
    /\ \E o \in OtherGrids(Registry) :
          /\ Len(grid_histogram_map[-o]) = 2
          /\ \E k \in CallerGrids : k < -o
    /\ Cardinality(OtherGrids(Registry)) = 1

\* the geometry Histogram::new / Histogram2D::new accepts by its contract
ValidGeometry(bins, range) ==
    \A a \in 1..Len(bins) : bins[a] > 0 /\ range[a][1] < range[a][2]

\* C22: no histogram with a bin count of 0 or with min >= max on an axis is
\* ever created in the registry; an add with such a geometry leaves the
\* registry without a new pane.
C22_InvalidGeometryCreatesNothing ==
    \A k \in 1..Len(tiles) : ValidGeometry(hists[tiles[k]].bins, hists[tiles[k]].range)

\* C23: the progress of a histogram is absent only if no fill of it is under
\* way: every fill task that targets it either has completed or has not yet
\* counted a row into it (since it was last reset).
C23_AbsentOnlyIfIdle ==
    \A h \in 1..Len(hists) :
        hists[h].progress = NoProgress =>
            \A t \in TasksOn(h) : Completed(t) \/ tasks[t].i = tasks[t].mark

\* the tasks of the handle list that have finished
Finished == {t \in Range(handles) : is_finished(Registry, t)}

\* C24: whatever the handle list and whichever of its tasks have finished,
\* check_and_join_finished_threads joins exactly the finished ones, each
\* once, and keeps every other handle, once, in the list: no unfinished
\* task is joined and no unfinished handle is dropped.
C24_JoinsExactlyFinished ==
    LET R2 == check_and_join(Registry) IN
    /\ R2.owner = "running"
    /\ Range(R2.handles) = Range(handles) \ Finished
    /\ Len(R2.handles) = Len(handles) - Cardinality(Finished)
    /\ \A t \in 1..Len(tasks) :
          R2.tasks[t] = [tasks[t] EXCEPT !.joined = @ + (IF t \in Finished THEN 1 ELSE 0)]

\* after an earlier poll has joined a task and reordered the list, three
\* handles are left, of which one that is not the last has finished
C24_Witness ==
    /\ \E t \in 1..Len(tasks) : tasks[t].joined = 1
    /\ Len(handles) >= 3
    /\ \E j, k \in 1..Len(handles) :
          j < k /\ handles[j] \in Finished /\ handles[k] \notin Finished
    /\ \E j, k \in 1..Len(handles) : j < k /\ handles[j] > handles[k]

\* C25: the filter of a fill task is the range its histogram has when the
\* fill is requested and no step changes it; the rows a task iterates are
\* the rows that filter selects, whatever the range has become; and a row is
\* counted in the bin it has under the range the histogram has at that
\* moment (in no bin if it is outside that range).
C25_SelectionFixedAtRequest ==
    [][\A t \in 1..Len(tasks') :
          /\ t <= Len(tasks) => tasks'[t].filt = tasks[t].filt
          /\ t > Len(tasks) => tasks'[t].filt = hists[tasks'[t].hist].range
          /\ tasks'[t].pc # "start" =>
                tasks'[t].rows = Collect(tasks'[t].cols, tasks'[t].filt)
          /\ (t <= Len(tasks) /\ tasks[t].pc = "locked" /\ tasks'[t].pc = "loop") =>
                hists'[tasks[t].hist] =
                   Fill(hists[tasks[t].hist], tasks[t].rows[tasks[t].i + 1],
                        tasks[t].i, Len(tasks[t].rows))]_vars

\* the only task has gone through rows that the range of its histogram, made
\* narrower after the request, would not have selected, and one of them was
\* left uncounted
C25_Witness ==
    /\ Len(tasks) = 1
    /\ tasks[1].pc = "loop"
    /\ tasks[1].mark = 0
    /\ tasks[1].i = 2
    /\ hists[tasks[1].hist].range # tasks[1].filt
    /\ tasks[1].rows # Collect(tasks[1].cols, hists[tasks[1].hist].range)
    /\ SumSeq(hists[tasks[1].hist].counts) = 1

\* C26: a fill task counts a row only while it holds the lock of its
\* histogram, counts one row per acquisition and leaves the lock free in the
\* same step; a task holds the lock only for the row it is about to count,
\* so between two of its contributions the lock is free or held by another.
C26_LockPerContribution ==
    [][\A t \in 1..Len(tasks) :
          LET h == tasks[t].hist IN
          /\ tasks'[t].i # tasks[t].i =>
                /\ tasks[t].pc = "locked" /\ holder[h] = t
                /\ tasks'[t].i = tasks[t].i + 1
                /\ tasks'[t].pc = "loop" /\ holder'[h] = 0
          /\ holder'[h] = t => tasks'[t].pc = "locked"
          /\ tasks'[t].pc = "locked" => holder'[h] = t]_vars

\* between the first and the second contribution of one task the lock of
\* the histogram is held by another task
C26_Witness ==
    \E t, u \in 1..Len(tasks) :
        /\ t # u
        /\ tasks[t].pc = "loop"
        /\ tasks[t].i = 1
        /\ Len(tasks[t].rows) = 2
        /\ holder[tasks[t].hist] = u

\* C27: every fill task that has been dispatched eventually ends, and the
\* list of handles eventually is empty and stays empty (the caller asks for
\* at most MaxTasks fills, so from some point on no new fill is requested).
C27_TasksEndHandlesDrain ==
    /\ \A t \in 1..MaxTasks :
          [](Len(tasks) >= t => <>(Len(tasks) >= t /\ tasks[t].pc = "done"))
    /\ <>[](handles = <<>>)

\* two tasks that had rows to count have ended and been joined, and no
\* handle is left
C27_Witness ==
    /\ Len(tasks) >= 2
    /\ \A t \in 1..Len(tasks) :
          tasks[t].pc = "done" /\ tasks[t].joined = 1 /\ tasks[t].i >= 1
    /\ \E t, u \in 1..Len(tasks) : t # u /\ tasks[t].hist = tasks[u].hist
    /\ handles = <<>>

\* C28: a lock is held only by a fill task that is about to count a row
\* into that histogram, and that task can take its step at once: whoever
\* holds a lock waits for nothing. So whenever a fill task has not ended
\* some thread can step, and a lock the owner or a task waits for comes free.
C28_NoDeadlock ==
    /\ \A h \in 1..Len(hists) :
          holder[h] # 0 =>
             /\ holder[h] \in 1..Len(tasks)
             /\ tasks[holder[h]].hist = h
             /\ tasks[holder[h]].pc = "locked"
             /\ ENABLED worker_fill(holder[h])
    /\ \A t \in 1..Len(tasks) : tasks[t].pc = "locked" => holder[tasks[t].hist] = t
    /\ (\E t \in 1..Len(tasks) : tasks[t].pc # "done")
          => \E t \in 1..Len(tasks) : ENABLED ThreadStep(t) \/ ENABLED ThreadLock(t)

\* one task holds the lock of a histogram for which another task, with rows
\* left to count, is waiting
C28_Witness ==
    \E t, u \in 1..Len(tasks) :
        /\ tasks[t].pc = "locked"
        /\ tasks[u].hist = tasks[t].hist
        /\ tasks[u].pc = "loop"
        /\ tasks[u].i < Len(tasks[u].rows)
        /\ ~ENABLED ThreadLock(u)

\* C29: every histogram the registry holds is recorded in the placement
\* map exactly once, under one container, which is a grid and has the
\* histogram as a child; an add with a placement id that is not a grid leaves
\* no histogram behind.
C29_EveryHistogramRecordedOnce ==
    \A k \in 1..Len(tiles) :
        /\ TimesRecorded(Registry, tiles[k]) = 1
        /\ \A c \in RecordedUnder(Registry, tiles[k]) :
              /\ containers[c].kind = "Grid"
              /\ \E j \in 1..Len(containers[c].children) :
                    containers[c].children[j] = tiles[k]

====
